---- MODULE Spec2Model ----
(***************************************************************************)
(* dotenvguard: the line parser (core.parse_env_file), the validator       *)
(* (core.validate, ValidationResult) and the check command (cli.check).    *)
(*                                                                         *)
(* A Python str is a sequence of one-character strings; a file that exists *)
(* is the sequence of lines read_text().splitlines() yields.  A dict is a  *)
(* sequence of entries with distinct names, in insertion order.            *)
(***************************************************************************)
EXTENDS Naturals, Integers, Sequences, FiniteSets, TLC

VARIABLES fs, environ, pc, args, ret

vars == <<fs, environ, pc, args, ret>>

(***************************************************************************)
(* Strings                                                                 *)
(***************************************************************************)
Chars(s) == [i \in 1..Len(s) |-> SubSeq(s, i, i)]

\* The whitespace str.strip() removes and the regex class \s matches.
Whitespace == {" ", "\t"}

Quotes == {"\"", "'"}

LowerLetters == Chars("abcdefghijklmnopqrstuvwxyz")
UpperLetters == Chars("ABCDEFGHIJKLMNOPQRSTUVWXYZ")
Digits == Chars("0123456789")

Range(s) == {s[i] : i \in 1..Len(s)}

\* The regex class \w, on which the word boundary \b rests.
WordChars == Range(LowerLetters) \cup Range(UpperLetters) \cup Range(Digits) \cup {"_"}

\* str.lower() of one character (re.IGNORECASE).
Lower(c) ==
    IF \E i \in 1..Len(UpperLetters) : UpperLetters[i] = c
    THEN LowerLetters[CHOOSE i \in 1..Len(UpperLetters) : UpperLetters[i] = c]
    ELSE c

RECURSIVE LStrip(_)
LStrip(s) == IF s # <<>> /\ Head(s) \in Whitespace THEN LStrip(Tail(s)) ELSE s

RECURSIVE RStrip(_)
RStrip(s) ==
    IF s # <<>> /\ s[Len(s)] \in Whitespace THEN RStrip(SubSeq(s, 1, Len(s) - 1)) ELSE s

\* str.strip()
Strip(s) == RStrip(LStrip(s))

\* str.startswith(p)
StartsWith(s, p) == Len(s) >= Len(p) /\ SubSeq(s, 1, Len(p)) = p

\* Index of the first occurrence of c in s at or after i (Len(s) + 1 when none).
RECURSIVE IndexFrom(_, _, _)
IndexFrom(s, c, i) == IF i > Len(s) \/ s[i] = c THEN i ELSE IndexFrom(s, c, i + 1)

\* s.find(c) + 1
FirstIndex(s, c) == IndexFrom(s, c, 1)

\* s.split(c)[0]: the text before the first c, all of s when c does not occur.
SplitHead(s, c) == SubSeq(s, 1, FirstIndex(s, c) - 1)


(***************************************************************************)
(* core.py: values                                                         *)
(***************************************************************************)
\* str | None
None == [present |-> FALSE, text |-> <<>>]
Str(s) == [present |-> TRUE, text |-> s]

OK == "ok"
MISSING == "missing"
EMPTY == "empty"
EXTRA == "extra"
OPTIONAL == "optional"
ENV == "env"
Status == {OK, MISSING, EMPTY, EXTRA, OPTIONAL, ENV}

NoSource == "None"
OsEnviron == "os.environ"

\* EnvVar(name, status, has_default=False, default_value=None, is_optional=False, source=None)
EnvVar(name, status, has_default, default_value, is_optional, source) ==
    [name |-> name, status |-> status, has_default |-> has_default,
     default_value |-> default_value, is_optional |-> is_optional, source |-> source]

(***************************************************************************)
(* core.py: parse_env_file                                                 *)
(***************************************************************************)
OptionalWord == Chars("optional")

\* text[i..] begins with "optional" in any letter case, followed by a word boundary
MatchesOptionalAt(text, i) ==
    /\ i + Len(OptionalWord) - 1 <= Len(text)
    /\ \A k \in 1..Len(OptionalWord) : Lower(text[i + k - 1]) = OptionalWord[k]
    /\ \/ i + Len(OptionalWord) > Len(text)
       \/ text[i + Len(OptionalWord)] \notin WordChars

\* First index at or after i that holds no whitespace (Len(text) + 1 when none).
RECURSIVE SkipSpace(_, _)
SkipSpace(text, i) ==
    IF i <= Len(text) /\ text[i] \in Whitespace THEN SkipSpace(text, i + 1) ELSE i

\* The search without the word boundary \b.
OPTIONAL_RE_search_NoBoundary(text) ==
    \E i \in 1..Len(text) :
        /\ text[i] = "#"
        /\ SkipSpace(text, i + 1) + Len(OptionalWord) - 1 <= Len(text)
        /\ \A k \in 1..Len(OptionalWord) :
            Lower(text[SkipSpace(text, i + 1) + k - 1]) = OptionalWord[k]

\* bool(re.compile(r"#\s*optional\b", re.IGNORECASE).search(text))
OPTIONAL_RE_search(text) ==
    \E i \in 1..Len(text) :
        text[i] = "#" /\ MatchesOptionalAt(text, SkipSpace(text, i + 1))

ExportPrefix == Chars("export ")
ExportPrefixLen == 7

\* line.strip(), and line[7:] when that starts with "export "
StripExport(line) ==
    LET stripped == Strip(line)
    IN  IF StartsWith(stripped, ExportPrefix)
        THEN SubSeq(stripped, ExportPrefixLen + 1, Len(stripped))
        ELSE stripped

\* Lines the loop skips: blank lines and comments.
Skipped(raw_line) ==
    LET line == Strip(raw_line) IN line = <<>> \/ Head(line) = "#"

\* value.split("#")[0].strip() unless the value is empty or starts with a quote
StripInlineComment(value) ==
    IF value # <<>> /\ value[1] \notin Quotes THEN Strip(SplitHead(value, "#")) ELSE value

\* value[1:-1] when the value is at least two characters within matching quotes
StripQuotes(value) ==
    IF Len(value) >= 2 /\ value[1] = value[Len(value)] /\ value[1] \in Quotes
    THEN SubSeq(value, 2, Len(value) - 1)
    ELSE value

\* The value of a line that contains "=", from the text after the first "=".
ParseValue(after) == StripQuotes(StripInlineComment(Strip(after)))

\* The entry one unskipped line records.
ParseLine(raw_line, parse_annotations) ==
    LET line == StripExport(raw_line)
        is_optional == IF parse_annotations THEN OPTIONAL_RE_search(raw_line) ELSE FALSE
        eq == FirstIndex(line, "=")
    IN  IF eq <= Len(line)
        THEN [name |-> Strip(SubSeq(line, 1, eq - 1)),
              value |-> Str(ParseValue(SubSeq(line, eq + 1, Len(line)))),
              is_optional |-> is_optional]
        ELSE [name |-> Strip(line), value |-> None, is_optional |-> is_optional]

\* DictSet that moves an overwritten key to the end.
DictSet_MoveToEnd(d, entry) ==
    LET Other(e) == e.name # entry.name IN Append(SelectSeq(d, Other), entry)

\* d[key] = entry on an insertion-ordered dict
DictSet(d, entry) ==
    IF \E i \in 1..Len(d) : d[i].name = entry.name
    THEN [i \in 1..Len(d) |-> IF d[i].name = entry.name THEN entry ELSE d[i]]
    ELSE Append(d, entry)

RECURSIVE ParseLines(_, _, _)
ParseLines(lines, parse_annotations, d) ==
    IF lines = <<>> THEN d
    ELSE ParseLines(Tail(lines), parse_annotations,
                    IF Skipped(Head(lines)) THEN d
                    ELSE DictSet(d, ParseLine(Head(lines), parse_annotations)))

parse_env_file(path, parse_annotations) ==
    IF ~fs[path].exists THEN <<>>
    ELSE ParseLines(fs[path].lines, parse_annotations, <<>>)

\* name in d, and d[name]
Keys(d) == {d[i].name : i \in 1..Len(d)}
Get(d, name) == d[CHOOSE i \in 1..Len(d) : d[i].name = name]

(***************************************************************************)
(* core.py: ValidationResult                                               *)
(***************************************************************************)
ValidationResult(vs, env_path, example_path) ==
    [vars |-> vs, env_path |-> env_path, example_path |-> example_path]

\* ok with Status.ENV left out of the passing statuses.
ok_WithoutEnv(result) ==
    \A i \in 1..Len(result.vars) : result.vars[i].status \in {OK, EXTRA, OPTIONAL}

\* ValidationResult.ok
ok(result) ==
    \A i \in 1..Len(result.vars) : result.vars[i].status \in {OK, EXTRA, OPTIONAL, ENV}

WithStatus(result, status) ==
    LET Has(v) == v.status = status IN SelectSeq(result.vars, Has)

\* ValidationResult.missing, .empty, .extra
missing(result) == WithStatus(result, MISSING)
empty(result) == WithStatus(result, EMPTY)
extra(result) == WithStatus(result, EXTRA)

NamesOf(vs) == [i \in 1..Len(vs) |-> vs[i].name]

\* ValidationResult.to_dict: "source" is a key only when v.source is truthy
to_dict(result) ==
    [ok |-> ok(result),
     env_file |-> result.env_path,
     example_file |-> result.example_path,
     missing |-> NamesOf(missing(result)),
     empty |-> NamesOf(empty(result)),
     extra |-> NamesOf(extra(result)),
     variables |-> [i \in 1..Len(result.vars) |->
        [name |-> result.vars[i].name,
         status |-> result.vars[i].status,
         has_default |-> result.vars[i].has_default,
         optional |-> result.vars[i].is_optional,
         source |-> result.vars[i].source]]]

(***************************************************************************)
(* core.py: validate                                                       *)
(***************************************************************************)
\* HasDefault without the test against the empty string.
HasDefault_NotNone(parsed) == parsed.value # None

\* has_default and default_value of a template entry
HasDefault(parsed) == parsed.value # None /\ parsed.value # Str(<<>>)
DefaultValue(parsed) == IF HasDefault(parsed) THEN parsed.value ELSE None

\* ClassifyAbsent with the optional flag looked at before the environment.
ClassifyAbsent_OptionalFirst(parsed, check_env) ==
    IF parsed.is_optional
    THEN EnvVar(parsed.name, OPTIONAL, HasDefault(parsed), DefaultValue(parsed), TRUE, NoSource)
    ELSE IF check_env /\ parsed.name \in environ
    THEN EnvVar(parsed.name, ENV, HasDefault(parsed), DefaultValue(parsed), FALSE, OsEnviron)
    ELSE EnvVar(parsed.name, MISSING, HasDefault(parsed), DefaultValue(parsed), FALSE, NoSource)

\* ClassifyAbsent without the optional branch.
ClassifyAbsent_NoOptional(parsed, check_env) ==
    IF check_env /\ parsed.name \in environ
    THEN EnvVar(parsed.name, ENV, HasDefault(parsed), DefaultValue(parsed), FALSE, OsEnviron)
    ELSE EnvVar(parsed.name, MISSING, HasDefault(parsed), DefaultValue(parsed), FALSE, NoSource)

\* A template name that is not in env_vars.
ClassifyAbsent(parsed, check_env) ==
    IF check_env /\ parsed.name \in environ
    THEN EnvVar(parsed.name, ENV, HasDefault(parsed), DefaultValue(parsed), FALSE, OsEnviron)
    ELSE IF parsed.is_optional
    THEN EnvVar(parsed.name, OPTIONAL, HasDefault(parsed), DefaultValue(parsed), TRUE, NoSource)
    ELSE EnvVar(parsed.name, MISSING, HasDefault(parsed), DefaultValue(parsed), FALSE, NoSource)

\* ClassifyPresent with an optional name excused from the emptiness check.
ClassifyPresent_OptionalNotEmpty(parsed, env_value, warn_empty) ==
    IF env_value = Str(<<>>) /\ warn_empty /\ ~parsed.is_optional
    THEN EnvVar(parsed.name, EMPTY, HasDefault(parsed), DefaultValue(parsed),
                parsed.is_optional, NoSource)
    ELSE EnvVar(parsed.name, OK, HasDefault(parsed), DefaultValue(parsed),
                parsed.is_optional, NoSource)

\* ClassifyPresent with a missing value taken for an empty one.
ClassifyPresent_NoneIsEmpty(parsed, env_value, warn_empty) ==
    IF (env_value = Str(<<>>) \/ env_value = None) /\ warn_empty
    THEN EnvVar(parsed.name, EMPTY, HasDefault(parsed), DefaultValue(parsed),
                parsed.is_optional, NoSource)
    ELSE EnvVar(parsed.name, OK, HasDefault(parsed), DefaultValue(parsed),
                parsed.is_optional, NoSource)

\* A template name that is in env_vars, with the value env_value there.
ClassifyPresent(parsed, env_value, warn_empty) ==
    IF env_value = Str(<<>>) /\ warn_empty
    THEN EnvVar(parsed.name, EMPTY, HasDefault(parsed), DefaultValue(parsed),
                parsed.is_optional, NoSource)
    ELSE EnvVar(parsed.name, OK, HasDefault(parsed), DefaultValue(parsed),
                parsed.is_optional, NoSource)

\* One pass of the loop over example_parsed.items().
Classify(parsed, env_vars, warn_empty, check_env) ==
    IF parsed.name \notin Keys(env_vars)
    THEN ClassifyAbsent(parsed, check_env)
    ELSE ClassifyPresent(parsed, Get(env_vars, parsed.name).value, warn_empty)

\* ExtraVars with the show_extra test left out.
ExtraVars_Always(env_vars, example_parsed, show_extra) ==
    LET NotDeclared(e) == e.name \notin Keys(example_parsed)
        extras == SelectSeq(env_vars, NotDeclared)
    IN  [i \in 1..Len(extras) |-> EnvVar(extras[i].name, EXTRA, FALSE, None, FALSE, NoSource)]

\* The rows the show_extra loop appends.
ExtraVars(env_vars, example_parsed, show_extra) ==
    LET NotDeclared(e) == e.name \notin Keys(example_parsed)
        extras == SelectSeq(env_vars, NotDeclared)
    IN  IF show_extra
        THEN [i \in 1..Len(extras) |-> EnvVar(extras[i].name, EXTRA, FALSE, None, FALSE, NoSource)]
        ELSE <<>>

validate(env_path, example_path, warn_empty, show_extra, check_env) ==
    LET example_parsed == parse_env_file(example_path, TRUE)
        env_vars == parse_env_file(env_path, FALSE)
    IN  ValidationResult(
            [i \in 1..Len(example_parsed) |->
                Classify(example_parsed[i], env_vars, warn_empty, check_env)]
            \o ExtraVars(env_vars, example_parsed, show_extra),
            env_path, example_path)

(***************************************************************************)
(* core.py: find_env_files                                                 *)
(***************************************************************************)
\* Path | None
NoPath == "None"
EnvPath == ".env"
ExampleCandidates == <<".env.example", ".env.sample", ".env.template", "env.example">>
ExamplePath == ExampleCandidates[1]
\* A path no file is ever written to.
NopePath == "nope"
Paths == {EnvPath, NopePath} \cup Range(ExampleCandidates)

\* find_env_files(directory)[1]: the first candidate that exists
FoundExample ==
    IF \E i \in 1..Len(ExampleCandidates) : fs[ExampleCandidates[i]].exists
    THEN ExampleCandidates[CHOOSE i \in 1..Len(ExampleCandidates) :
            /\ fs[ExampleCandidates[i]].exists
            /\ \A j \in 1..(i - 1) : ~fs[ExampleCandidates[j]].exists]
    ELSE NoPath

\* find_env_files(directory)[0]
FoundEnv == IF fs[EnvPath].exists THEN EnvPath ELSE NoPath

(***************************************************************************)
(* cli.py: check                                                           *)
(***************************************************************************)
\* The options the check command declares (besides --env and --example).
DeclaredFlags == {"--extra", "--no-empty-warning", "--json"}

\* The keys of status_styles in _render_table.
StatusStyles == {OK, MISSING, EMPTY, EXTRA}

\* _render_table raises KeyError at status_styles[var.status], before it prints
RenderTableRaises(result) ==
    \E i \in 1..Len(result.vars) : result.vars[i].status \notin StatusStyles

CheckReturn(exit_code, output, validated, result) ==
    [exit_code |-> exit_code, output |-> output, validated |-> validated, result |-> result]

NoResult == ValidationResult(<<>>, NoPath, NoPath)

\* check, once the command line is parsed
CheckBody(env_opt, example_opt, show_extra, no_empty_warning, output_json) ==
    LET env_file == IF env_opt = NoPath THEN FoundEnv ELSE env_opt
        example_file == IF example_opt = NoPath THEN FoundExample ELSE example_opt
        result == validate(env_file, example_file, ~no_empty_warning, show_extra, FALSE)
    IN  IF example_file = NoPath THEN CheckReturn(1, "no_example", FALSE, NoResult)
        ELSE IF env_file = NoPath THEN CheckReturn(1, "no_env", FALSE, NoResult)
        ELSE IF ~output_json /\ RenderTableRaises(result)
        THEN CheckReturn(1, "KeyError", TRUE, result)
        ELSE CheckReturn(IF ok(result) THEN 0 ELSE 1,
                         IF output_json THEN "json" ELSE "table", TRUE, result)

\* The check command run with the options env_opt, example_opt and the flags:
\* an option the command does not declare ends it with a usage error, exit code 2.
check(env_opt, example_opt, flags) ==
    IF ~(flags \subseteq DeclaredFlags)
    THEN CheckReturn(2, "usage", FALSE, NoResult)
    ELSE CheckBody(env_opt, example_opt, "--extra" \in flags,
                   "--no-empty-warning" \in flags, "--json" \in flags)

(***************************************************************************)
(* The files, the environment, and the calls                               *)
(***************************************************************************)
MaxLines == 2

NoFile == [exists |-> FALSE, lines |-> <<>>]
File(lines) == [exists |-> TRUE, lines |-> lines]

SeqsUpTo(S, n) == UNION {[1..k -> S] : k \in 0..n}

\* Lines of a template and of an actual file.
TemplateLines ==
    {Chars("A="), Chars("A=v  # optional"), Chars("B=v"), Chars("export B= # Optional")}
EnvLines == {Chars("A="), Chars("A=v"), Chars("B"), Chars("C=v")}

\* Names the process environment may hold.
EnvironNames == {Chars("A")}

\* The flags a command line may carry.
Flags == DeclaredFlags \cup {"--check-env"}

Files(lines) == {NoFile} \cup {File(c) : c \in SeqsUpTo(lines, MaxLines)}

Init ==
    /\ \E env \in Files(EnvLines), example \in Files(TemplateLines) :
        fs = [p \in Paths |->
                IF p = EnvPath THEN env ELSE IF p = ExamplePath THEN example ELSE NoFile]
    /\ environ \in SUBSET EnvironNames
    /\ pc = "start"
    /\ args = <<>>
    /\ ret = <<>>

\* parse_env_file(path, parse_annotations=...)
ParseEnvFile(path, parse_annotations) ==
    /\ pc = "start"
    /\ pc' = "parse_env_file"
    /\ args' = [path |-> path, parse_annotations |-> parse_annotations]
    /\ ret' = parse_env_file(path, parse_annotations)
    /\ UNCHANGED <<fs, environ>>

\* validate(env_path, example_path, warn_empty=..., show_extra=..., check_env=...)
Validate(env_path, example_path, warn_empty, show_extra, check_env) ==
    /\ pc = "start"
    /\ pc' = "validate"
    /\ args' = [env_path |-> env_path, example_path |-> example_path,
                warn_empty |-> warn_empty, show_extra |-> show_extra,
                check_env |-> check_env]
    /\ ret' = validate(env_path, example_path, warn_empty, show_extra, check_env)
    /\ UNCHANGED <<fs, environ>>

\* dotenvguard check [--env E] [--example X] [flags]; the calls made here leave
\* --env and --example out, so that both files are looked up in the directory.
Check(env_opt, example_opt, flags) ==
    /\ pc = "start"
    /\ pc' = "check"
    /\ args' = [env_file |-> env_opt, example_file |-> example_opt, flags |-> flags]
    /\ ret' = check(env_opt, example_opt, flags)
    /\ UNCHANGED <<fs, environ>>

\* The caller goes on to its next call.
Return ==
    /\ pc # "start"
    /\ pc' = "start"
    /\ args' = <<>>
    /\ ret' = <<>>
    /\ UNCHANGED <<fs, environ>>

Next ==
    \/ \E path \in {EnvPath, ExamplePath, NopePath}, parse_annotations \in BOOLEAN :
        ParseEnvFile(path, parse_annotations)
    \/ \E warn_empty \in BOOLEAN, show_extra \in BOOLEAN, check_env \in BOOLEAN :
        Validate(EnvPath, ExamplePath, warn_empty, show_extra, check_env)
    \/ \E flags \in SUBSET Flags : Check(NoPath, NoPath, flags)
    \/ Return

Spec == Init /\ [][Next]_vars

(***************************************************************************)
(* The parser alone, on one-line files over a small alphabet               *)
(***************************************************************************)
MaxBodyLen == 5

LineAlphabet == {"=", "v", " ", "#", "\"", "'"}
LinePrefixes == {Chars("K"), Chars("export K")}
ParseLineInputs == {p \o b : p \in LinePrefixes, b \in SeqsUpTo(LineAlphabet, MaxBodyLen)}

\* Lines with or without a name that end in up to MaxFragments pieces of an
\* annotation.
MaxFragments == 4

LineFragments ==
    {Chars(" "), Chars("#"), Chars("\""), Chars("optional"), Chars("Optional"),
     Chars("OPTIONAL"), Chars("ly")}
FragmentPrefixes ==
    {Chars("K=v"), Chars("export K=v"), Chars("K=\""), Chars(" = "), Chars("export =")}

RECURSIVE Concat(_)
Concat(pieces) == IF pieces = <<>> THEN <<>> ELSE Head(pieces) \o Concat(Tail(pieces))

FragmentLineInputs ==
    {p \o Concat(f) : p \in FragmentPrefixes, f \in SeqsUpTo(LineFragments, MaxFragments)}

InitParse ==
    /\ \E line \in ParseLineInputs \cup FragmentLineInputs :
        fs = [p \in Paths |-> IF p = EnvPath THEN File(<<line>>) ELSE NoFile]
    /\ environ = {}
    /\ pc = "start"
    /\ args = <<>>
    /\ ret = <<>>

NextParse ==
    \/ \E parse_annotations \in BOOLEAN : ParseEnvFile(EnvPath, parse_annotations)
    \/ Return

SpecParse == InitParse /\ [][NextParse]_vars

(***************************************************************************)
(* Files that name a variable on several lines                             *)
(***************************************************************************)
MaxDupLines == 3

DupTemplateLines ==
    {Chars("A="), Chars("A=v  # optional"), Chars("A=\"# optional\""), Chars("B=v")}
DupEnvLines == {Chars("A="), Chars("A=v")}

DupFiles(lines) == {NoFile} \cup {File(c) : c \in SeqsUpTo(lines, MaxDupLines)}

InitDup ==
    /\ \E env \in DupFiles(DupEnvLines), example \in DupFiles(DupTemplateLines) :
        fs = [p \in Paths |->
                IF p = EnvPath THEN env ELSE IF p = ExamplePath THEN example ELSE NoFile]
    /\ environ \in SUBSET EnvironNames
    /\ pc = "start"
    /\ args = <<>>
    /\ ret = <<>>

NextDup ==
    \/ \E path \in {EnvPath, ExamplePath}, parse_annotations \in BOOLEAN :
        ParseEnvFile(path, parse_annotations)
    \/ \E warn_empty \in BOOLEAN, show_extra \in BOOLEAN, check_env \in BOOLEAN :
        Validate(EnvPath, ExamplePath, warn_empty, show_extra, check_env)
    \/ Return

SpecDup == InitDup /\ [][NextDup]_vars

(***************************************************************************)
(* Properties of validate                                                  *)
(***************************************************************************)
\* The two mappings a finished validate call compared, and its rows.
Validated == pc = "validate"
Template == parse_env_file(args.example_path, TRUE)
Actual == parse_env_file(args.env_path, FALSE)
Rows == ret.vars
RowsNamed(name) == {j \in 1..Len(Rows) : Rows[j].name = name /\ Rows[j].status # EXTRA}

\* The status of an absent template name, by the priority environment, optional, missing.
AbsentStatus(t) ==
    IF args.check_env /\ t.name \in environ THEN ENV
    ELSE IF t.is_optional THEN OPTIONAL
    ELSE MISSING

\* Each entry of template that is not in actual has rows, all of the status the
\* priority gives, with the source set on ENV rows alone.
AbsentByPriority(template, actual) ==
    \A i \in 1..Len(template) :
        template[i].name \notin Keys(actual) =>
            /\ RowsNamed(template[i].name) # {}
            /\ \A j \in RowsNamed(template[i].name) :
                /\ Rows[j].status = AbsentStatus(template[i])
                /\ (Rows[j].status = ENV) = (Rows[j].source = OsEnviron)
                /\ ~args.check_env => Rows[j].status \in {OPTIONAL, MISSING}

\* C1: a template name that is not in the actual file is FROM_ENVIRONMENT (source
\* "os.environ") when check_env is on and the environment holds the name, else
\* OPTIONAL when the template marks it optional, else MISSING; with check_env off
\* the environment never matters.
Thm_C1 == Validated => AbsentByPriority(Template, Actual)

AbsentWithStatus(template, actual, optional, in_environ, statuses) ==
    \E i \in 1..Len(template) :
        /\ template[i].name \notin Keys(actual)
        /\ template[i].is_optional \in optional
        /\ (template[i].name \in environ) \in in_environ
        /\ \E j \in RowsNamed(template[i].name) : Rows[j].status \in statuses

\* An absent name that is optional and in the environment, with check_env on and
\* beside it an absent name that is not in the environment.
Witness_C1 ==
    /\ Validated /\ args.check_env
    /\ AbsentWithStatus(Template, Actual, {TRUE}, {TRUE}, {ENV})
    /\ AbsentWithStatus(Template, Actual, BOOLEAN, {FALSE}, {OPTIONAL, MISSING})

\* Each entry of template that is in actual has rows, all EMPTY or OK, EMPTY
\* exactly for an empty string under warn_empty.
PresentEmptyOrOk(template, actual) ==
    \A i \in 1..Len(template) :
        template[i].name \in Keys(actual) =>
            /\ RowsNamed(template[i].name) # {}
            /\ \A j \in RowsNamed(template[i].name) :
                /\ Rows[j].status \in {EMPTY, OK}
                /\ (Rows[j].status = EMPTY) =
                    (/\ Get(actual, template[i].name).value = Str(<<>>)
                     /\ args.warn_empty)

\* C2: a template name that is in the actual file is EMPTY or OK only; EMPTY exactly
\* when its actual value is the empty string and warn_empty is on.
Thm_C2 == Validated => PresentEmptyOrOk(Template, Actual)

OptionalPresentEmpty(template, actual) ==
    \E i \in 1..Len(template) :
        /\ template[i].name \in Keys(actual)
        /\ template[i].is_optional /\ template[i].name \in environ
        /\ Get(actual, template[i].name).value = Str(<<>>)
        /\ \E j \in RowsNamed(template[i].name) : Rows[j].status = EMPTY

\* An optional name, present and empty in the actual file, held by the environment,
\* with warn_empty and check_env on: its row is EMPTY.
Witness_C2 ==
    /\ Validated /\ args.warn_empty /\ args.check_env
    /\ OptionalPresentEmpty(Template, Actual)

\* C3: ok is true exactly when no row is MISSING or EMPTY, which is when the
\* missing and the empty lists are both empty.
Thm_C3 ==
    Validated =>
        /\ ok(ret) = (\A j \in 1..Len(Rows) : Rows[j].status \notin {MISSING, EMPTY})
        /\ ok(ret) = (missing(ret) = <<>> /\ empty(ret) = <<>>)
        /\ to_dict(ret).ok = (to_dict(ret).missing = <<>> /\ to_dict(ret).empty = <<>>)

\* A result that is ok and holds a FROM_ENVIRONMENT row and an EXTRA row.
Witness_C3 ==
    /\ Validated /\ ok(ret)
    /\ \E j \in 1..Len(Rows) : Rows[j].status = ENV
    /\ \E j \in 1..Len(Rows) : Rows[j].status = EXTRA

\* The names of actual that template does not declare, in file order.
UndeclaredNames(template, actual) ==
    LET declared == Keys(template)
        NotDeclared(e) == e.name \notin declared
    IN  NamesOf(SelectSeq(actual, NotDeclared))

TemplateRowsThenExtras(template, actual) ==
    /\ Len(Rows) >= Len(template)
    /\ \A i \in 1..Len(template) :
        Rows[i].name = template[i].name /\ Rows[i].status # EXTRA
    /\ \A j \in (Len(template) + 1)..Len(Rows) : Rows[j].status = EXTRA
    /\ NamesOf(SubSeq(Rows, Len(template) + 1, Len(Rows))) =
        (IF args.show_extra THEN UndeclaredNames(template, actual) ELSE <<>>)
    /\ \A j, k \in 1..Len(Rows) : Rows[j].name = Rows[k].name => j = k

\* C4: the rows are one non-EXTRA row per template name in template order, then,
\* only when show_extra is on, one EXTRA row per undeclared actual name in
\* actual-file order; no name has two rows.
Thm_C4 == Validated => TemplateRowsThenExtras(Template, Actual)

\* A template row followed by two EXTRA rows, with show_extra on.
Witness_C4 ==
    /\ Validated /\ args.show_extra
    /\ Len(Template) >= 1 /\ Len(UndeclaredNames(Template, Actual)) >= 2
    /\ Len(Rows) = Len(Template) + Len(UndeclaredNames(Template, Actual))

\* The rows that stand for an entry of template.
Declared(template, row) == row.status # EXTRA /\ row.name \in Keys(template)

OptionalMirrored(template) ==
    \A j \in 1..Len(Rows) :
        /\ Declared(template, Rows[j]) =>
            Rows[j].is_optional = Get(template, Rows[j].name).is_optional
        /\ Rows[j].status = EXTRA => ~Rows[j].is_optional

\* C5: is_optional of a row is the optional flag of the template entry of the same
\* name, whatever the row's status, and false on EXTRA rows.
CE_C5 == Validated => OptionalMirrored(Template)

DefaultsFromTemplate(template) ==
    \A j \in 1..Len(Rows) :
        /\ Declared(template, Rows[j]) =>
            /\ Rows[j].has_default =
                (/\ Get(template, Rows[j].name).value.present
                 /\ Get(template, Rows[j].name).value.text # <<>>)
            /\ Rows[j].default_value =
                (IF Rows[j].has_default THEN Get(template, Rows[j].name).value ELSE None)
        /\ Rows[j].status = EXTRA =>
            ~Rows[j].has_default /\ Rows[j].default_value = None

\* C6: on a row with a template counterpart has_default says that the template
\* value is present and not empty, and default_value is that value or None;
\* an EXTRA row has neither.
Thm_C6 == Validated => DefaultsFromTemplate(Template)

DefaultAndNone(template) ==
    /\ \E j \in 1..Len(Rows) :
        /\ Declared(template, Rows[j])
        /\ Rows[j].has_default /\ Rows[j].default_value = Str(<<"v">>)
    /\ \E j \in 1..Len(Rows) :
        /\ Declared(template, Rows[j])
        /\ ~Rows[j].has_default /\ Get(template, Rows[j].name).value = Str(<<>>)

\* A row with a default beside a row whose template value is the empty string,
\* and an EXTRA row.
Witness_C6 ==
    /\ Validated
    /\ DefaultAndNone(Template)
    /\ \E j \in 1..Len(Rows) : Rows[j].status = EXTRA

AllMissing(template) ==
    /\ Len(Rows) = Len(template)
    /\ \A i \in 1..Len(template) :
        Rows[i].name = template[i].name /\ Rows[i].status = MISSING

\* C7 as claimed: a path that does not exist parses to the empty mapping, and with
\* no actual file every template entry is MISSING.
CE_C7 ==
    /\ pc = "parse_env_file" /\ ~fs[args.path].exists => ret = <<>>
    /\ Validated /\ ~fs[args.env_path].exists => AllMissing(Template)

AllAbsent(template) ==
    /\ Len(Rows) = Len(template)
    /\ \A i \in 1..Len(template) :
        Rows[i].name = template[i].name /\ Rows[i].status = AbsentStatus(template[i])

\* C7, amended: a path that does not exist parses to the empty mapping, and with
\* no actual file the result has one row per template entry, each classified as
\* an absent name: FROM_ENVIRONMENT, else OPTIONAL, else MISSING.
Thm_C7 ==
    /\ pc = "parse_env_file" /\ ~fs[args.path].exists => ret = <<>>
    /\ Validated /\ ~fs[args.env_path].exists => AllAbsent(Template)

\* No actual file, a template of a required and an optional entry.
Witness_C7 ==
    /\ Validated /\ ~fs[args.env_path].exists /\ fs[args.example_path].exists
    /\ \E i \in 1..Len(Rows) : Rows[i].status = MISSING
    /\ \E i \in 1..Len(Rows) : Rows[i].status = OPTIONAL

(***************************************************************************)
(* Properties of the check command                                         *)
(***************************************************************************)
\* The files a finished check call works on, and the result the validator gives
\* for them under the flags of the call, with check_env as the command line asks.
Checked == pc = "check"
CheckedEnv == IF args.env_file = NoPath THEN FoundEnv ELSE args.env_file
CheckedExample == IF args.example_file = NoPath THEN FoundExample ELSE args.example_file
Located == CheckedEnv # NoPath /\ CheckedExample # NoPath
CheckedResult ==
    validate(CheckedEnv, CheckedExample, "--no-empty-warning" \notin args.flags,
             "--extra" \in args.flags, "--check-env" \in args.flags)

\* C8: the exit code is 0 when both files are located and the result is ok, in
\* table and in JSON mode and whatever statuses the result holds, and 1 when the
\* result is not ok or a file is not located.
CE_C8 ==
    Checked /\ args.flags \subseteq DeclaredFlags =>
        ret.exit_code = (IF Located /\ ok(CheckedResult) THEN 0 ELSE 1)

\* C9: with --check-env the command validates with check_env on: a template name
\* absent from .env and set in the environment is reported as env and does not
\* fail the command, which exits 1 only if another name makes the result not ok.
CE_C9 ==
    /\ Checked /\ "--check-env" \in args.flags /\ Located
    /\ \E j \in 1..Len(CheckedResult.vars) : CheckedResult.vars[j].status = ENV
    =>
        /\ ret.validated
        /\ ret.result = CheckedResult
        /\ ret.exit_code = (IF ok(CheckedResult) THEN 0 ELSE 1)

(***************************************************************************)
(* Properties of the parser                                                *)
(***************************************************************************)
\* The first "#" of v at or after i that no pair of quotes encloses, q being the
\* quote character that is open at i ("" when none is); Len(v) + 1 when none.
RECURSIVE UnquotedHash(_, _, _)
UnquotedHash(v, i, q) ==
    IF i > Len(v) THEN i
    ELSE IF q # "" THEN UnquotedHash(v, i + 1, IF v[i] = q THEN "" ELSE q)
    ELSE IF v[i] = "#" THEN i
    ELSE IF v[i] \in Quotes /\ IndexFrom(v, v[i], i + 1) <= Len(v)
    THEN UnquotedHash(v, i + 1, v[i])
    ELSE UnquotedHash(v, i + 1, "")

\* The value rule as specified, on the text after the first "=".
SpecifiedValue(after) ==
    LET trimmed == Strip(after)
        uncommented ==
            IF trimmed # <<>> /\ trimmed[1] \notin Quotes
            THEN Strip(SubSeq(trimmed, 1, UnquotedHash(trimmed, 1, "") - 1))
            ELSE trimmed
    IN  IF /\ Len(uncommented) >= 2
           /\ uncommented[1] \in Quotes
           /\ uncommented[1] = uncommented[Len(uncommented)]
        THEN SubSeq(uncommented, 2, Len(uncommented) - 1)
        ELSE uncommented

\* C10: the value parsed from a line that contains "=" is the specified value rule
\* applied to the text after the first "=", a "#" within quotes starting no comment.
CE_C10 ==
    pc = "parse_env_file" /\ fs[args.path].exists /\ Len(fs[args.path].lines) = 1 =>
        LET raw_line == fs[args.path].lines[1]
            line == StripExport(raw_line)
            eq == FirstIndex(line, "=")
        IN  ~Skipped(raw_line) /\ eq <= Len(line) =>
                /\ Len(ret) = 1
                /\ ret[1].value = Str(SpecifiedValue(SubSeq(line, eq + 1, Len(line))))

\* The one line of the file a finished parse_env_file call read, when it has one
\* line and that line is recorded.
ParsedOneLine ==
    /\ pc = "parse_env_file" /\ fs[args.path].exists
    /\ Len(fs[args.path].lines) = 1 /\ ~Skipped(fs[args.path].lines[1])
RawLine == fs[args.path].lines[1]

\* raw[w..] is the word "optional" in any letter case, and the word ends there.
OptionalWordAt(raw, w) ==
    /\ w + 7 <= Len(raw)
    /\ \A k \in 1..8 : raw[w + k - 1] \in {Chars("optional")[k], Chars("OPTIONAL")[k]}
    /\ w + 8 <= Len(raw) => raw[w + 8] \notin WordChars

\* raw holds a "#", then whitespace or nothing, then the whole word "optional".
Annotated(raw) ==
    \E h \in 1..Len(raw), w \in 1..Len(raw) :
        /\ raw[h] = "#" /\ h < w
        /\ \A k \in (h + 1)..(w - 1) : raw[k] \in Whitespace
        /\ OptionalWordAt(raw, w)

\* C11: with annotation detection on, a recorded entry is optional exactly when
\* its raw line holds "#", optional whitespace and the whole word "optional" in
\* any letter case, with or without the export prefix; with detection off no
\* entry is optional.
Thm_C11 ==
    ParsedOneLine =>
        /\ Len(ret) = 1
        /\ ret[1].is_optional = (args.parse_annotations /\ Annotated(RawLine))

\* An exported line annotated in upper case, parsed with detection on.
Witness_C11 ==
    /\ ParsedOneLine /\ args.parse_annotations
    /\ StartsWith(RawLine, ExportPrefix)
    /\ \E i \in 1..Len(RawLine) : RawLine[i] = "O"
    /\ ret[1].name = <<"K">> /\ ret[1].is_optional

\* C12: every name the parser records is a non-empty string.
CE_C12 == pc = "parse_env_file" => \A i \in 1..Len(ret) : ret[i].name # <<>>

(***************************************************************************)
(* Properties of repeated names and of annotations within values           *)
(***************************************************************************)
\* The entries the lines of a file record, one per unskipped line, in file order.
Recorded(lines, parse_annotations) ==
    LET Kept(l) == ~Skipped(l)
        kept == SelectSeq(lines, Kept)
    IN  [i \in 1..Len(kept) |-> ParseLine(kept[i], parse_annotations)]

\* The first and the last line of rec that names name.
FirstPos(rec, name) ==
    CHOOSE i \in 1..Len(rec) : rec[i].name = name /\ \A j \in 1..(i - 1) : rec[j].name # name
LastPos(rec, name) ==
    CHOOSE i \in 1..Len(rec) :
        rec[i].name = name /\ \A j \in (i + 1)..Len(rec) : rec[j].name # name

\* d holds each name of rec once, in the order of the first occurrences, with the
\* value and the optional flag of the last occurrence.
FirstPositionLastValue(d, rec) ==
    /\ Keys(d) = {rec[i].name : i \in 1..Len(rec)}
    /\ \A i, j \in 1..Len(d) :
        i < j => d[i].name # d[j].name /\ FirstPos(rec, d[i].name) < FirstPos(rec, d[j].name)
    /\ \A i \in 1..Len(d) : d[i] = rec[LastPos(rec, d[i].name)]

\* Every template name is classified from its last line and the last line of
\* the same name in the actual file.
ClassifiedByLast(trec, arec) ==
    \A n \in {trec[i].name : i \in 1..Len(trec)} :
        LET t == trec[LastPos(trec, n)]
        IN  /\ Cardinality(RowsNamed(n)) = 1
            /\ \A j \in RowsNamed(n) :
                /\ Rows[j].status =
                    (IF n \notin {arec[i].name : i \in 1..Len(arec)} THEN AbsentStatus(t)
                     ELSE IF arec[LastPos(arec, n)].value = Str(<<>>) /\ args.warn_empty
                     THEN EMPTY
                     ELSE OK)
                /\ Rows[j].has_default = (t.value.present /\ t.value.text # <<>>)

\* C13: a name that occurs on several lines is in the mapping once, at the place
\* of its first occurrence, with the value and the optional flag of its last
\* occurrence, and validate classifies it by the last occurrence.
Thm_C13 ==
    /\ pc = "parse_env_file" /\ fs[args.path].exists =>
        FirstPositionLastValue(ret, Recorded(fs[args.path].lines, args.parse_annotations))
    /\ Validated =>
        ClassifiedByLast(Recorded(fs[args.example_path].lines, TRUE),
                         Recorded(fs[args.env_path].lines, FALSE))

RepeatedAround(d, rec) ==
    /\ Len(rec) = 3 /\ Len(d) = 2
    /\ rec[1].name = rec[3].name /\ rec[2].name # rec[1].name
    /\ rec[1].value # rec[3].value /\ rec[1].is_optional # rec[3].is_optional
    /\ d[1] = rec[3] /\ d[2] = rec[2]

\* A template of three lines, the first and the third of one name with different
\* values and flags: the mapping holds that name first, with the third line's entry.
Witness_C13 ==
    /\ pc = "parse_env_file" /\ args.parse_annotations
    /\ RepeatedAround(ret, Recorded(fs[args.path].lines, TRUE))

\* The line is NAME=, then a value within one pair of quotes that holds the
\* annotation, then nothing.
QuotedAnnotationLine(raw_line) ==
    LET line == StripExport(raw_line)
        value == Strip(SubSeq(line, FirstIndex(line, "=") + 1, Len(line)))
    IN  /\ ~Skipped(raw_line) /\ FirstIndex(line, "=") <= Len(line)
        /\ Len(value) >= 2 /\ value[1] \in Quotes
        /\ IndexFrom(value, value[1], 2) = Len(value)
        /\ Annotated(SubSeq(value, 2, Len(value) - 1))
        /\ ~Annotated(SubSeq(raw_line, 1, FirstIndex(raw_line, "=")))

\* The entries of template that come from a line whose quoted value holds the
\* annotation keep the text, are not optional, and are MISSING when absent.
QuotedAnnotationKept(lines, template, actual) ==
    \A k \in 1..Len(lines) :
        QuotedAnnotationLine(lines[k]) =>
            LET e == ParseLine(lines[k], TRUE)
            IN  \A i \in 1..Len(template) :
                    template[i].name = e.name /\ template[i].value = e.value =>
                        /\ Annotated(template[i].value.text)
                        /\ ~template[i].is_optional
                        /\ template[i].name \notin Keys(actual) =>
                            \A j \in RowsNamed(e.name) : Rows[j].status \in {MISSING, ENV}

\* C14: text the parser keeps as a value is not also read as an annotation: a
\* template line whose quoted value holds "# optional" keeps that text, is not
\* marked optional, and its name is MISSING, not OPTIONAL, when absent.
CE_C14 ==
    Validated => QuotedAnnotationKept(fs[args.example_path].lines, Template, Actual)

(***************************************************************************)
(* Properties of lines without "="                                         *)
(***************************************************************************)
\* The line is recorded and has no "=".
NoEqualsLine(raw_line) ==
    /\ ~Skipped(raw_line)
    /\ FirstIndex(StripExport(raw_line), "=") > Len(StripExport(raw_line))

\* The template names whose last line in the actual file has no "=".
Valueless(template, lines) ==
    LET arec == Recorded(lines, FALSE)
    IN  {i \in 1..Len(template) :
            /\ template[i].name \in {arec[k].name : k \in 1..Len(arec)}
            /\ NoEqualsLine(SelectSeq(lines, LAMBDA l : ~Skipped(l))
                                [LastPos(arec, template[i].name)])}

ValuelessIsOk(template, actual, lines) ==
    LET valueless == Valueless(template, lines)
    IN  /\ \A i \in valueless :
            /\ Get(actual, template[i].name).value = None
            /\ RowsNamed(template[i].name) # {}
            /\ \A j \in RowsNamed(template[i].name) : Rows[j].status = OK
        /\ valueless = 1..Len(template) => ok(ret)

\* C15: a template name whose line in the actual file has no "=" is OK whatever
\* warn_empty, check_env and its optional flag are, never EMPTY and never MISSING;
\* when every template name is so, the result is ok.
Thm_C15 == Validated => ValuelessIsOk(Template, Actual, fs[args.env_path].lines)

\* A required B whose only line in the actual file is "B", validated with
\* warn_empty and check_env on: B is OK and the result is ok.
Witness_C15 ==
    /\ Validated /\ args.warn_empty /\ args.check_env
    /\ fs[args.env_path].lines = <<Chars("B")>>
    /\ fs[args.example_path].lines = <<Chars("B=v")>>
    /\ Len(Rows) = 1 /\ Rows[1].name = Chars("B") /\ ~Rows[1].is_optional
    /\ Rows[1].status = OK /\ ok(ret)

====
